---- MODULE Spec2Model ----
(***************************************************************************)
(* A model of otp-updater.py (class GTFSUpdater and main).                 *)
(*                                                                         *)
(* A Python string is modelled as a sequence of tokens, so that            *)
(* concatenation is \o, startswith is a prefix test and os.path.join is    *)
(* computed on the tokens the way posixpath.join computes it on            *)
(* characters.  The empty sequence << >> is the empty string, which        *)
(* Python treats as false, like None (NoString among the strings).         *)
(*                                                                         *)
(* The file system is a set of directory paths and a function from file    *)
(* paths to [content, mtime].  The world outside the process (the servers  *)
(* behind the URLs, the files that file: URLs name, the exit status of     *)
(* the OpenTripPlanner command) is the variable remote and the choice of   *)
(* retcode in UpdateGraph.  What the process finds on its machine (the     *)
(* command line, the config file, the time zone, whether the feed list,    *)
(* the command and the log directory exist, whether a user is at the       *)
(* terminal) is the variable env.  What the OpenTripPlanner command        *)
(* prints, and a Ctrl-C of the user, are choices of the actions            *)
(* UpdateGraph and Cancel.                                                 *)
(*                                                                         *)
(* Times are integers.  The file system and the last-modified headers      *)
(* count on one clock (UTC); env.tz is what the local wall clock is ahead  *)
(* of it.                                                                  *)
(***************************************************************************)
EXTENDS Integers, Sequences, FiniteSets, TLC

\* Number of runs of the program in one behaviour.
MaxRuns == 2
\* Number of changes of the remote resources in one behaviour.
MaxChanges == 2

\* response.getcode() == 200, res.status == 200
HTTP_OK == 200
\* Python's None where the model needs it among integers (a response code,
\* a last-modified time)
None == -1
\* Python's None where the model needs it among strings (an option that
\* was not given, a key that the config file lacks): a token that no
\* string of the model has
NoString == <<"None">>
\* The exit status of a process that a KeyboardInterrupt nothing handles
\* has ended (the interpreter dies of SIGINT: -2 to its parent, 130 to a
\* shell)
KilledBySIGINT == -2
\* The exit status after a Ctrl-C that left main: 1 by lines 337-339, or
\* KilledBySIGINT when one more Ctrl-C finds the handler of lines 337-339
\* at work, and when the Ctrl-C comes at line 340, after main has returned
exit_after_ctrl_c == {1, KilledBySIGINT}

\* not x, for a string or None
falsy(x) == x = NoString \/ x = << >>

VARIABLES
    env,              \* the machine: arguments, config file, time zone, ...
    options,          \* self.options, the resolved options bundle
    feed_list,        \* the rows csv.reader yields from --feed-list
    remote,           \* what every URL answers to a GET and to a HEAD
    fs_dirs,          \* directories that exist
    fs_files,         \* files that exist: path -> [content, mtime]
    now,              \* the clock that stamps mtimes
    _updated_graphs,  \* self._updated_graphs
    _found_error,     \* self._found_error: "unset" until first assigned
    pc,               \* "idle", "sync", "rebuild", "done", "crashed"
    idx,              \* index of the next row of feed_list to read
    pending,          \* graphs the loop of _update_graphs has not reached
    retcode,          \* exit status of the process, -1 while it runs
    run,              \* number of runs started
    epoch,            \* number of remote changes so far
    ev,               \* what the last step did: row, I/O operations
    sigint,           \* URLs of the row at hand whose fetch a Ctrl-C hits
    log               \* what this run did so far, and the run before it

vars == <<env, options, feed_list, remote, fs_dirs, fs_files, now, _updated_graphs,
          _found_error, pc, idx, pending, retcode, run, epoch, ev, sigint,
          log>>

----------------------------------------------------------------------------
\* Strings

\* str.startswith
startswith(s, prefix) ==
    Len(s) >= Len(prefix) /\ SubSeq(s, 1, Len(prefix)) = prefix

\* str.endswith
endswith(s, suffix) ==
    Len(s) >= Len(suffix)
        /\ SubSeq(s, Len(s) - Len(suffix) + 1, Len(s)) = suffix

\* os.path.join(a, b)
path_join2(a, b) ==
    IF startswith(b, <<"/">>) THEN b
    ELSE IF a = << >> \/ endswith(a, <<"/">>) THEN a \o b
    ELSE a \o <<"/">> \o b

\* os.path.join(a, b, c)
path_join(a, b, c) == path_join2(path_join2(a, b), c)

\* os.path.join(a, b, c, d)
path_join4(a, b, c, d) == path_join2(path_join(a, b, c), d)

\* urlparse(url): a URL is <<scheme, "://", netloc, path>>, with
\* <<"?", query>> appended when it has a query
urlparse(url) ==
    [scheme |-> url[1], netloc |-> url[3], path |-> <<url[4]>>,
     query |-> IF Len(url) >= 6 THEN <<url[6]>> ELSE << >>]

----------------------------------------------------------------------------
\* Files and their digests

\* A file's content is a sequence of bytes.
Contents == {<<1>>, <<2>>}

\* hasher.update(buf) for every byte of the stream, then hexdigest(): an
\* injective function of the whole byte stream, as SHA-256 is taken to be
RECURSIVE hash_stream(_)
hash_stream(bytes) ==
    IF bytes = << >> THEN 0
    ELSE 257 * hash_stream(SubSeq(bytes, 1, Len(bytes) - 1))
            + bytes[Len(bytes)] + 1

\* _sha256hash(file): file is an open file object [name, content]
_sha256hash(file) == hash_stream(file.content)

\* Mutant: the file objects are compared, not their digests
_is_files_identical_by_name(file1, file2) == file1.name = file2.name

\* _is_files_identical(file1, file2)
_is_files_identical(file1, file2) == _sha256hash(file1) = _sha256hash(file2)

\* os.path.exists(path) in the file system [dirs, files]
path_exists(S, path) == path \in S.dirs \/ path \in DOMAIN S.files

\* open(path, 'rb') of an existing file
open_file(S, path) == [name |-> path, content |-> S.files[path].content]

\* shutil.copyfile(src.name, dst): dst gets the content, and the time of
\* the write as its modification time
copyfile(S, src, dst) ==
    [S EXCEPT !.files =
        [p \in DOMAIN S.files \cup {dst} |->
            IF p = dst THEN [content |-> src.content, mtime |-> now]
            ELSE S.files[p]],
              !.written = @ \cup {dst}]

\* shutil.rmtree(path): the directory and everything below it
rmtree(dirs, files, path) ==
    LET below(p) == startswith(p, path \o <<"/">>)
    IN  [dirs  |-> {d \in dirs : d # path /\ ~below(d)},
         files |-> [p \in {q \in DOMAIN files : ~below(q)} |-> files[p]]]

----------------------------------------------------------------------------
\* Option accessors

\* _is_force_rebuild_set
_is_force_rebuild_set == options["--force-rebuild"]

\* _get_otp_base_dir
_get_otp_base_dir == options["--otp-base-dir"]

\* _is_keep_failed_graphs_set
_is_keep_failed_graphs_set == options["--keep-failed-graphs"]

\* _get_otp_log_path: '' when the option is None or empty
_get_otp_log_path ==
    IF falsy(options["--otp-log-path"]) THEN << >>
    ELSE options["--otp-log-path"]

\* read_config: the options after the config file has filled in what the
\* command line left out.  A key that the file lacks is NoString in
\* config.
\* keep_failed_graphs is read and has no effect (line 98 is an expression,
\* not an assignment).
read_config(opts, config) ==
    [o \in DOMAIN opts |->
        CASE o = "--otp-base-dir" ->
                IF falsy(opts[o]) /\ config.otp_base_dir # NoString
                THEN config.otp_base_dir ELSE opts[o]
          [] o = "--otp-command" ->
                IF falsy(opts[o]) /\ config.otp_command # NoString
                THEN config.otp_command ELSE opts[o]
          [] o = "--force-rebuild" ->
                IF ~opts[o] /\ config.force_rebuild = <<"true">>
                THEN TRUE ELSE opts[o]
          [] o = "--otp-log-path" ->
                IF falsy(opts[o]) /\ config.log_path # NoString
                THEN config.log_path ELSE opts[o]
          [] OTHER -> opts[o]]

\* __init__, line 67: the default of --otp-base-dir, "/var/otp"
default_otp_base_dir == <<"/", "var", "/", "otp">>

\* __init__: self.options after read_config and the defaults
init_options(opts, config) ==
    LET o == read_config(opts, config)
    IN  [o EXCEPT !["--otp-base-dir"] =
            IF falsy(@) THEN default_otp_base_dir ELSE @]

----------------------------------------------------------------------------
\* The network

\* The file object a failed fetch stands for (None in the source)
NoFile == [name |-> << >>, content |-> << >>]

\* _fetch_file(url), called with self._found_error = err: whether a file
\* was returned (not None), the temporary file, and self._found_error
\* afterwards.  remote[url].get.code is 0 when urlopen raises (connection
\* failure, HTTP error status), None when the response has no status code
\* (ftp and file responses), else the HTTP status.  In the else branch
\* response.message may itself raise: the bare except catches it, with the
\* same result.  The bare except also catches the KeyboardInterrupt of a
\* Ctrl-C that comes while urlopen or read is at work (url \in sigint): the
\* fetch has failed and the program goes on.
_fetch_file(err, url) ==
    LET response == remote[url].get
        u == urlparse(url)
        failed == [ok |-> FALSE, file |-> NoFile, err |-> "True"]
    IN  IF url \in sigint \/ response.code = 0 THEN failed
        ELSE IF u.scheme = "ftp" \/ response.code = HTTP_OK THEN
            [ok |-> TRUE,
             file |-> [name |-> <<"tmp">>, content |-> response.body],
             err |-> err]
        ELSE failed

\* _get_last_modified_for_url(url): the parsed last-modified time or None;
\* parser.parse(mod, ignoretz=True) gives the wall clock of the header,
\* which is in GMT, without its zone: the number of the UTC time.
\* "raise" when the HEAD request raises (no try/except around it).
\* remote[url].head.status is 0 when conn.request or conn.getresponse raises.
_get_last_modified_for_url(url) ==
    LET res == remote[url].head
    IN  IF res.status = 0 THEN [exit |-> "raise", value |-> None]
        ELSE IF res.status = HTTP_OK THEN
            [exit |-> "return", value |-> res.last_modified]
        ELSE [exit |-> "return", value |-> None]

----------------------------------------------------------------------------
\* Processing one row

\* The state one call of _update_feed works on: the file system, the two
\* fields of self it writes, the I/O operations it has done (ops), the
\* files it has written, and how the call is going: "run", "return" (returned) or "raise" (an exception
\* is propagating).
CallState(dirs, files, upd, err) ==
    [dirs |-> dirs, files |-> files, upd |-> upd, err |-> err,
     ops |-> {}, written |-> {}, exit |-> "run"]

did(S, op) == [S EXCEPT !.ops = @ \cup {op}]

\* _create_graph_dir(graph)
_create_graph_dir(S, graph) ==
    LET path == path_join(_get_otp_base_dir, <<"graphs">>, graph)
    IN  IF ~path_exists(S, path)
        THEN did([S EXCEPT !.dirs = @ \cup {path}], "makedirs")
        ELSE S

\* _update_feed, line 167: the path of the stored feed_info.txt of a row
stored_feed_info_path_of(row) ==
    path_join4(_get_otp_base_dir, <<"graphs">>, row[1],
               row[2] \o <<"_feed_info.txt">>)

\* _update_feed, line 184: the path of the local feed of a row
local_feed_path_of(row) ==
    path_join4(_get_otp_base_dir, <<"graphs">>, row[1], row[2] \o <<".zip">>)

\* Mutant: the force-rebuild option is ignored
force_rebuild_step_ignored(S, graph) == S

\* _update_feed, lines 159-161: the force-rebuild option
force_rebuild_step(S, graph) ==
    IF _is_force_rebuild_set
    THEN did([S EXCEPT !.upd = @ \cup {graph}], "force_mark")
    ELSE S

\* Mutant: identical feed info does not end the processing of the row
feed_info_step_no_skip(S, row) ==
    LET r == _fetch_file(S.err, row[4])
        S1 == [did(S, "fetch_info") EXCEPT !.err = r.err]
    IN  IF ~r.ok THEN S1
        ELSE IF path_exists(S1, stored_feed_info_path_of(row))
                /\ _is_files_identical(r.file,
                       open_file(S1, stored_feed_info_path_of(row)))
        THEN did(S1, "hash_info")
        ELSE did(copyfile(S1, r.file, stored_feed_info_path_of(row)),
                 "write_info")

\* Mutant: a stored feed info is never replaced
feed_info_step_keep_old(S, row) ==
    LET stored_feed_info_path == stored_feed_info_path_of(row)
        r == _fetch_file(S.err, row[4])
        S1 == [did(S, "fetch_info") EXCEPT !.err = r.err]
    IN  IF ~r.ok THEN S1
        ELSE IF path_exists(S1, stored_feed_info_path)
        THEN IF _is_files_identical(r.file,
                                    open_file(S1, stored_feed_info_path))
             THEN [did(S1, "hash_info") EXCEPT !.exit = "return"]
             ELSE did(S1, "hash_info")
        ELSE did(copyfile(S1, r.file, stored_feed_info_path), "write_info")

\* _update_feed, lines 165-182: the feed_info.txt check of a 4-field row
feed_info_step(S, row) ==
    LET graph == row[1]
        feed == row[2]
        feed_info_url == row[4]
        stored_feed_info_path == stored_feed_info_path_of(row)
        r == _fetch_file(S.err, feed_info_url)
        S1 == [did(S, "fetch_info") EXCEPT !.err = r.err]
    IN  IF ~r.ok THEN S1
        ELSE IF path_exists(S1, stored_feed_info_path)
                /\ _is_files_identical(r.file,
                                       open_file(S1, stored_feed_info_path))
        THEN [did(S1, "hash_info") EXCEPT !.exit = "return"]
        ELSE did(copyfile(IF path_exists(S1, stored_feed_info_path)
                          THEN did(S1, "hash_info") ELSE S1,
                          r.file, stored_feed_info_path),
                 "write_info")

\* datetime.fromtimestamp(t): the local wall clock at time t, a datetime
\* without a zone
fromtimestamp(t) == t + env.tz

\* _update_feed, lines 184-197: the last-modified check of http(s) URLs
last_modified_step(S, local_feed_path, feed_url) ==
    LET u == urlparse(feed_url)
    IN  IF u.scheme = "https" \/ u.scheme = "http" THEN
            LET probe == _get_last_modified_for_url(feed_url)
                remote_feed_updated == probe.value
                S1 == did(S, "probe")
            IN  IF probe.exit = "raise" THEN [S1 EXCEPT !.exit = "raise"]
                ELSE IF path_exists(S1, local_feed_path)
                        /\ remote_feed_updated # None
                        /\ remote_feed_updated
                              <= fromtimestamp(
                                     S1.files[local_feed_path].mtime)
                THEN [S1 EXCEPT !.exit = "return"]
                ELSE S1
        ELSE S

\* Mutant: the fetched feed replaces the local one without a comparison
install_step_no_compare(S, graph, local_feed_path, feed_url) ==
    LET r == _fetch_file(S.err, feed_url)
        S1 == [did(S, "fetch_main") EXCEPT !.err = r.err]
    IN  IF r.ok
        THEN [did(did(copyfile(S1, r.file, local_feed_path),
                      "write_payload"), "mark")
                EXCEPT !.upd = @ \cup {graph}, !.exit = "return"]
        ELSE [S1 EXCEPT !.exit = "return"]

\* Mutant: the graph is added whenever the feed was fetched, changed or not
install_step_mark_always(S, graph, local_feed_path, feed_url) ==
    LET r == _fetch_file(S.err, feed_url)
        S1 == [did(S, "fetch_main") EXCEPT !.err = r.err]
    IN  IF ~r.ok THEN [S1 EXCEPT !.exit = "return"]
        ELSE IF path_exists(S1, local_feed_path)
                /\ _is_files_identical(open_file(S1, local_feed_path), r.file)
        THEN [did(did(S1, "hash_main"), "mark")
                EXCEPT !.upd = @ \cup {graph}, !.exit = "return"]
        ELSE [did(did(copyfile(S1, r.file, local_feed_path),
                      "write_payload"), "mark")
                EXCEPT !.upd = @ \cup {graph}, !.exit = "return"]

\* _update_feed, lines 199-221: get the new feed, compare, install
install_step(S, graph, local_feed_path, feed_url) ==
    LET u == urlparse(feed_url)
        r == IF u.scheme = "file"
             THEN \* open(u.path, 'rb'): raises when there is no such file
                  [ok |-> remote[feed_url].get.code # 0,
                   file |-> [name |-> u.path,
                             content |-> remote[feed_url].get.body],
                   err |-> S.err]
             ELSE _fetch_file(S.err, feed_url)
        S1 == [did(S, IF u.scheme = "file" THEN "open_main"
                      ELSE "fetch_main") EXCEPT !.err = r.err]
        install(T) ==
            [did(did(copyfile(T, r.file, local_feed_path), "write_payload"),
                 "mark") EXCEPT !.upd = @ \cup {graph}]
    IN  IF u.scheme = "file" /\ ~r.ok THEN [S1 EXCEPT !.exit = "raise"]
        ELSE IF ~r.ok THEN [S1 EXCEPT !.exit = "return"]
        ELSE IF path_exists(S1, local_feed_path) THEN
            IF ~_is_files_identical(open_file(S1, local_feed_path), r.file)
            THEN [install(did(S1, "hash_main")) EXCEPT !.exit = "return"]
            ELSE [did(S1, "hash_main") EXCEPT !.exit = "return"]
        ELSE [install(S1) EXCEPT !.exit = "return"]

\* _update_feed, lines 165-182, for the row at hand: a row of four fields
\* has its feed info checked
feed_info_of_row(S, row) ==
    IF Len(row) = 4 THEN feed_info_step(S, row) ELSE S

\* _update_feed, lines 184-197, for the row at hand, unless the call has
\* returned
last_modified_of_row(S, row) ==
    IF S.exit = "run"
    THEN last_modified_step(S, local_feed_path_of(row), row[3])
    ELSE S

\* _update_feed, lines 199-221, for the row at hand, unless the call has
\* returned or raised
install_of_row(S, row) ==
    IF S.exit = "run"
    THEN install_step(S, row[1], local_feed_path_of(row), row[3])
    ELSE S

\* _update_feed, lines 153-221: what a row that passes the
\* --only-process-graph filter goes through
process_feed(S, row) ==
    install_of_row(
        last_modified_of_row(
            feed_info_of_row(
                force_rebuild_step(_create_graph_dir(S, row[1]), row[1]),
                row),
            row),
        row)

\* Mutant: the filter is looked at after the graph directory and the
\* force-rebuild option
_update_feed_filter_late(S, row) ==
    LET graph == row[1]
        only_process_graph == options["--only-process-graph"]
    IN  IF ~falsy(only_process_graph) /\ only_process_graph # graph
        THEN [force_rebuild_step(_create_graph_dir(S, graph), graph)
                 EXCEPT !.exit = "return"]
        ELSE process_feed(S, row)

\* _update_feed(row), from CallState S
_update_feed(S, row) ==
    LET graph == row[1]
        only_process_graph == options["--only-process-graph"]
    IN  IF ~falsy(only_process_graph) /\ only_process_graph # graph
        THEN [S EXCEPT !.exit = "return"]
        ELSE process_feed(S, row)

----------------------------------------------------------------------------
\* The rebuild phase

\* _update_graph, line 231: the path of the log of the command
otp_log_path_of(graph) ==
    path_join2(_get_otp_log_path, <<"otp-build-">> \o graph \o <<".log">>)

\* The directory of the log exists: the working directory when the log
\* path is ''
log_dir_found == _get_otp_log_path = << >> \/ env.log_dir_exists

\* _update_graph, line 236: open(otp_log_path, 'w') leaves an empty file
open_log(files, graph) ==
    [p \in DOMAIN files \cup {otp_log_path_of(graph)} |->
        IF p = otp_log_path_of(graph)
        THEN [content |-> << >>, mtime |-> now]
        ELSE files[p]]

\* _update_graph, line 237: call(..., stdout=outfile, stderr=outfile), the
\* command writes what it prints, out, to the open log
call_command(files, graph, out) ==
    [open_log(files, graph) EXCEPT ![otp_log_path_of(graph)].content = out]

\* _delete_graph_dir(graph): called with the graph's path, which it joins
\* to the base directory once more
_delete_graph_dir(dirs, files, graph) ==
    LET path == path_join(_get_otp_base_dir, <<"graphs">>, graph)
    IN  IF path \in dirs \/ path \in DOMAIN files
        THEN rmtree(dirs, files, path)
        ELSE [dirs |-> dirs, files |-> files]

\* Mutant: a failed graph is deleted whatever --keep-failed-graphs says
_update_graph_never_keep(dirs, files, err, graph, rc) ==
    LET graph_path == path_join(_get_otp_base_dir, <<"graphs">>, graph)
    IN  IF rc = 0 THEN [fs |-> [dirs |-> dirs, files |-> files], err |-> err]
        ELSE [fs |-> _delete_graph_dir(dirs, files, graph_path),
              err |-> "True"]

\* _update_graph(graph) when the command exits with rc: the file system
\* and self._found_error afterwards
_update_graph(dirs, files, err, graph, rc) ==
    LET graph_path == path_join(_get_otp_base_dir, <<"graphs">>, graph)
        kept == [dirs |-> dirs, files |-> files]
    IN  IF rc = 0 THEN [fs |-> kept, err |-> err]
        ELSE [fs |-> IF ~_is_keep_failed_graphs_set
                     THEN _delete_graph_dir(dirs, files, graph_path)
                     ELSE kept,
              err |-> "True"]

\* The contents a file can be left with when the write of content is cut
\* short: what had been written by then
cut_short(content) ==
    {SubSeq(content, 1, k) : k \in 0..(Len(content) - 1)}

\* _delete_graph_dir(graph) left by a Ctrl-C inside shutil.rmtree: files
\* below the directory are gone, the directory is still there
_delete_graph_dir_interrupted(dirs, files, graph) ==
    LET path == path_join(_get_otp_base_dir, <<"graphs">>, graph)
        below == {p \in DOMAIN files : startswith(p, path \o <<"/">>)}
    IN  IF path \in dirs \/ path \in DOMAIN files
        THEN {[dirs |-> dirs,
               files |-> [p \in DOMAIN files \ gone |-> files[p]]] :
                 gone \in SUBSET below \ {{}}}
        ELSE {}

\* _update_graph(graph) left by a Ctrl-C after the command has exited with
\* rc: the file system and self._found_error where KeyboardInterrupt
\* finds them: after call has returned (line 237), after the assignment of
\* line 243, inside or after the deletion of line 246
_update_graph_interrupted(dirs, files, err, graph, rc) ==
    LET graph_path == path_join(_get_otp_base_dir, <<"graphs">>, graph)
        kept == [dirs |-> dirs, files |-> files]
    IN  IF rc = 0 THEN {[fs |-> kept, err |-> err]}
        ELSE {[fs |-> kept, err |-> err], [fs |-> kept, err |-> "True"],
              _update_graph(dirs, files, err, graph, rc)}
             \cup (IF ~_is_keep_failed_graphs_set
                   THEN {[fs |-> f, err |-> "True"] :
                           f \in _delete_graph_dir_interrupted(
                                    dirs, files, graph_path)}
                   ELSE {})

\* updater.found_error: the attribute main reads is the method itself,
\* main does not call it
updater_found_error == "bound method GTFSUpdater.found_error"

\* Python's truth value of what main can test
truth(x) == x \notin {"False", "None", ""}

\* main, line 329
main_return == IF truth(updater_found_error) THEN 255 ELSE 0

----------------------------------------------------------------------------
\* The inputs

gA == <<"A">>
gB == <<"B">>
base_abs == <<"/", "var", "/", "otp">>
base_rel == <<"otp">>

url_http == <<"http", "://", "x", "/a.zip">>
url_info == <<"https", "://", "x", "/info", "?", "v=1">>
url_ftp  == <<"ftp", "://", "y", "/b.zip">>
url_file == <<"file", "://", "", "/data/b.zip">>

Row3     == <<gA, <<"f">>, url_http>>
Row4     == <<gA, <<"f">>, url_http, url_info>>
RowFtp   == <<gB, <<"g">>, url_ftp>>
RowFile  == <<gB, <<"g">>, url_file>>
RowSame  == <<gA, <<"f">>, url_ftp>>
Blank    == << >>
Comment  == << <<"#", "A">>, <<"f">>, url_http >>
TooShort == <<gB, <<"g">>>>
TooLong  == <<gB, <<"g">>, url_http, url_info, <<"x">>>>

FeedLists ==
    { <<Row4>>,
      <<Comment, TooShort, Row3>>,
      <<Row3, Blank, RowFtp>>,
      <<RowFile, TooLong, Row3>>,
      <<Row4, RowFtp>>,
      <<Row3, RowSame>> }

otp_command == <<"/", "usr", "/", "bin", "/", "otp">>
log_dir == <<"/", "var", "/", "log", "/", "otp">>

\* What the command can print: nothing, or a line
CommandOutputs == {<< >>, <<"building">>}

\* The arguments docopt gives main; NoString is an option that was not
\* given
Arguments(b, c, f, k, l, g) ==
    [o \in {"--otp-base-dir", "--otp-command", "--force-rebuild",
             "--keep-failed-graphs", "--otp-log-path",
             "--only-process-graph"} |->
         CASE o = "--otp-base-dir" -> b
           [] o = "--otp-command" -> c
           [] o = "--force-rebuild" -> f
           [] o = "--keep-failed-graphs" -> k
           [] o = "--otp-log-path" -> l
           [] OTHER -> g]

OptionSets ==
    { Arguments(b, otp_command, f, k, NoString, g) :
      b \in {base_abs, base_rel}, f \in BOOLEAN, k \in BOOLEAN,
      g \in {NoString, gA} }

\* Nothing but --otp-command given on the command line
BareArguments ==
    Arguments(NoString, otp_command, FALSE, FALSE, NoString, NoString)

\* Nothing given on the command line
NoArguments ==
    Arguments(NoString, NoString, FALSE, FALSE, NoString, NoString)

\* A config file with its three sections and no key in them
EmptyConfig ==
    [present |-> TRUE, otp_base_dir |-> NoString,
     otp_command |-> NoString, force_rebuild |-> NoString,
     keep_failed_graphs |-> NoString, log_path |-> NoString]

\* A config file that sets every key read_config reads
FullConfig ==
    [present |-> TRUE, otp_base_dir |-> base_rel,
     otp_command |-> otp_command, force_rebuild |-> <<"true">>,
     keep_failed_graphs |-> <<"true">>, log_path |-> log_dir]

\* No config file, or one that lacks a section
NoConfig == [EmptyConfig EXCEPT !.present = FALSE]

\* A machine in UTC where everything the program needs is there, and
\* where the program runs without a terminal (nobody sends it SIGINT)
Machine(arguments) ==
    [arguments |-> arguments, config |-> EmptyConfig, tz |-> 0,
     feed_list_exists |-> TRUE, command_exists |-> TRUE,
     log_dir_exists |-> TRUE, user |-> FALSE]

\* Every command line of OptionSets on a machine in UTC with an empty
\* config file
PlainMachines == { Machine(a) : a \in OptionSets }

\* The machines: the plain ones, and machines that differ from them by
\* their time zone, their config file, or by something that is missing
Environments ==
    PlainMachines
    \cup { [Machine(BareArguments) EXCEPT !.tz = z] : z \in {-1, 1} }
    \cup { [Machine(NoArguments) EXCEPT !.config = FullConfig],
           [Machine(BareArguments) EXCEPT !.config = NoConfig],
           [Machine(BareArguments) EXCEPT !.feed_list_exists = FALSE],
           Machine(NoArguments),
           Machine(Arguments(<< >>, << >>, FALSE, FALSE, << >>, << >>)),
           [Machine(BareArguments) EXCEPT !.command_exists = FALSE],
           [Machine(BareArguments) EXCEPT !.user = TRUE],
           [Machine(Arguments(NoString, otp_command, FALSE, FALSE, log_dir,
                              NoString)) EXCEPT !.log_dir_exists = FALSE] }

\* The feed URLs of the well-formed rows of a feed list
FeedURLsOf(list) ==
    {list[i][3] : i \in {k \in DOMAIN list :
                            /\ Len(list[k]) \in {3, 4}
                            /\ ~startswith(list[k][1], <<"#">>)}}

\* The feed lists a machine is run with
FeedListsOn(machine) ==
    IF machine \in PlainMachines THEN FeedLists
    ELSE { <<Row4>>, <<Row3, Blank, RowFtp>> }

\* The URLs a feed list names in well-formed rows
URLsOf(list) ==
    UNION {{list[i][j] : j \in 3..Len(list[i])} :
           i \in {k \in DOMAIN list :
                    /\ Len(list[k]) \in {3, 4}
                    /\ ~startswith(list[k][1], <<"#">>)}}

\* The times a last-modified header gives: the time of the first run and
\* the time of the second one
Timestamps == {1, 2}

\* What a GET of the URL can answer
GetResponses(url) ==
    {[code |-> 0, body |-> << >>]}
    \cup {[code |-> IF url[1] \in {"http", "https"} THEN HTTP_OK ELSE None,
           body |-> c] : c \in Contents}

\* What a HEAD of the URL can answer
HeadResponses(url) ==
    IF url[1] \in {"http", "https"}
    THEN {[status |-> 0, last_modified |-> None],
          [status |-> 404, last_modified |-> None],
          [status |-> HTTP_OK, last_modified |-> None]}
         \cup {[status |-> HTTP_OK, last_modified |-> t] : t \in Timestamps}
    ELSE {[status |-> 0, last_modified |-> None]}

----------------------------------------------------------------------------
\* The state machine

NoEvent == [kind |-> "none", row |-> 0, ops |-> {}, exit |-> "return"]

EmptyFiles == [p \in {} |-> [content |-> << >>, mtime |-> 0]]

NewLog(start_epoch, prev) ==
    [start_epoch |-> start_epoch, writes |-> {}, calls |-> {}, ncalls |-> 0,
     deleted |-> {}, happened |-> {}, swallowed |-> FALSE, prev |-> prev]

\* Something that went wrong in a run: its kind, and the row or the graph
Event(kind, row, graph) == [kind |-> kind, row |-> row, graph |-> graph]

Init ==
    /\ env \in Environments
    /\ options = env.arguments
    /\ feed_list \in FeedListsOn(env)
    /\ remote = [u \in URLsOf(feed_list) |->
                    [get  |-> [code |-> IF u[1] \in {"http", "https"}
                                        THEN HTTP_OK ELSE None,
                               body |-> <<1>>],
                     head |-> IF u[1] \in {"http", "https"}
                              THEN [status |-> HTTP_OK, last_modified |-> 1]
                              ELSE [status |-> 0, last_modified |-> None]]]
    /\ fs_dirs = {}
    /\ fs_files = EmptyFiles
    /\ now = 0
    /\ _updated_graphs = {}
    /\ _found_error = "unset"
    /\ pc = "idle"
    /\ idx = 0
    /\ pending = {}
    /\ retcode = None
    /\ run = 0
    /\ epoch = 0
    /\ ev = NoEvent
    /\ sigint = {}
    /\ log = NewLog(0, [pc |-> "idle", idx |-> 0, start_epoch |-> 0,
                        deleted |-> {}, happened |-> {},
                        swallowed |-> FALSE])

\* The world changes between two runs: one URL answers differently from
\* now on.  A change after the last run is seen by no run and is left out,
\* and so is a change of the answer to a HEAD of a URL that is no feed URL
\* (only feed URLs are probed).
RemoteChange ==
    /\ pc \in {"idle", "done", "crashed"}
    /\ run < MaxRuns
    /\ epoch < MaxChanges
    /\ \E u \in DOMAIN remote :
          \/ \E g \in GetResponses(u) \ {remote[u].get} :
                remote' = [remote EXCEPT ![u].get = g]
          \/ /\ u \in FeedURLsOf(feed_list)
             /\ \E h \in HeadResponses(u) \ {remote[u].head} :
                   remote' = [remote EXCEPT ![u].head = h]
    /\ epoch' = epoch + 1
    /\ UNCHANGED <<env, sigint, options, feed_list, fs_dirs, fs_files, now,
                   _updated_graphs, _found_error, pc, idx, pending, retcode,
                   run, ev, log>>

\* main: GTFSUpdater(options), then update_feeds opens the feed list.
\* read_config raises KeyError when the config file lacks a section, open
\* raises when there is no feed list: either ends the process (exit
\* status 1) before a row is read.
\* The new run's log keeps, of what went wrong in the run before it, the
\* events of history.
StartRunKeeping(history) ==
    /\ pc \in {"idle", "done", "crashed"}
    /\ run < MaxRuns
    /\ run' = run + 1
    /\ now' = now + 1
    /\ _updated_graphs' = {}
    /\ _found_error' = "unset"
    /\ pending' = {}
    /\ ev' = NoEvent
    /\ log' = NewLog(epoch, [pc |-> pc, idx |-> idx,
                             start_epoch |-> log.start_epoch,
                             deleted |-> log.deleted,
                             happened |-> history,
                             swallowed |-> log.swallowed])
    /\ IF ~env.config.present
       THEN /\ options' = env.arguments
            /\ pc' = "crashed" /\ retcode' = 1 /\ idx' = 0
       ELSE /\ options' = init_options(env.arguments, env.config)
            /\ IF ~env.feed_list_exists
               THEN pc' = "crashed" /\ retcode' = 1 /\ idx' = 0
               ELSE pc' = "sync" /\ retcode' = None /\ idx' = 1
    /\ UNCHANGED <<env, sigint, feed_list, remote, fs_dirs, fs_files, epoch>>

\* A run starts; what went wrong in the run before it is forgotten
StartRun == StartRunKeeping({})

\* A run starts; what went wrong in the run before it is remembered
StartRunAfter == StartRunKeeping(log.happened)

AtRow == pc = "sync" /\ idx <= Len(feed_list)

\* update_feeds, lines 110-111
SkipEmptyLine ==
    /\ AtRow
    /\ Len(feed_list[idx]) = 0
    /\ idx' = idx + 1
    /\ ev' = [kind |-> "empty", row |-> idx, ops |-> {}, exit |-> "return"]
    /\ UNCHANGED <<env, sigint, options, feed_list, remote, fs_dirs, fs_files, now,
                   _updated_graphs, _found_error, pc, pending, retcode, run,
                   epoch, log>>

\* update_feeds, lines 113-114
SkipComment ==
    /\ AtRow
    /\ Len(feed_list[idx]) # 0
    /\ startswith(feed_list[idx][1], <<"#">>)
    /\ idx' = idx + 1
    /\ ev' = [kind |-> "comment", row |-> idx, ops |-> {}, exit |-> "return"]
    /\ UNCHANGED <<env, sigint, options, feed_list, remote, fs_dirs, fs_files, now,
                   _updated_graphs, _found_error, pc, pending, retcode, run,
                   epoch, log>>

\* Mutant: only too short rows are rejected
incorrect_feed_spec_short_only(row) == Len(row) < 3

\* len(row) < 3 or len(row) > 4
incorrect_feed_spec(row) == Len(row) < 3 \/ Len(row) > 4

\* update_feeds, lines 115-118
IncorrectFeedSpec ==
    /\ AtRow
    /\ Len(feed_list[idx]) # 0
    /\ ~startswith(feed_list[idx][1], <<"#">>)
    /\ incorrect_feed_spec(feed_list[idx])
    /\ _found_error' = "True"
    /\ idx' = idx + 1
    /\ ev' = [kind |-> "incorrect", row |-> idx, ops |-> {}, exit |-> "return"]
    /\ log' = [log EXCEPT !.happened =
                  @ \cup {Event("malformed", idx, feed_list[idx][1])}]
    /\ UNCHANGED <<env, sigint, options, feed_list, remote, fs_dirs, fs_files, now,
                   _updated_graphs, pc, pending, retcode, run, epoch>>

\* The fetches and the probe that failed in a call of _update_feed that
\* did the I/O operations ops on the row
Failures(ops, i) ==
    LET row == feed_list[i]
    IN  {Event("feed_info_fetch_failed", i, row[1]) : x \in
            {y \in {1} : "fetch_info" \in ops
                           /\ ~_fetch_file("unset", row[4]).ok}}
        \cup {Event("feed_fetch_failed", i, row[1]) : x \in
            {y \in {1} : "fetch_main" \in ops
                           /\ ~_fetch_file("unset", row[3]).ok}}
        \cup {Event("probe_failed", i, row[1]) : x \in
            {y \in {1} : "probe" \in ops
                           /\ remote[row[3]].head.status # HTTP_OK}}

\* A fetch that a call of _update_feed made (it did the I/O operations
\* ops on the row) was hit by a Ctrl-C, which its bare except caught
Swallowed(ops, i) ==
    LET row == feed_list[i]
    IN  \/ "fetch_info" \in ops /\ row[4] \in sigint
        \/ "fetch_main" \in ops /\ row[3] \in sigint

\* The user presses Ctrl-C while the row at hand is being processed and
\* _fetch_file is in its try block (lines 263-282), for the feed info, for
\* the feed or for both: the step that processes the row finds these
\* fetches failed
CtrlCInFetch ==
    /\ env.user
    /\ AtRow
    /\ Len(feed_list[idx]) # 0
    /\ ~startswith(feed_list[idx][1], <<"#">>)
    /\ ~incorrect_feed_spec(feed_list[idx])
    /\ sigint = {}
    /\ \E urls \in SUBSET {feed_list[idx][j] : j \in 3..Len(feed_list[idx])} :
          /\ urls # {}
          /\ \A u \in urls : urlparse(u).scheme # "file" \/ u # feed_list[idx][3]
          /\ sigint' = urls
    /\ UNCHANGED <<env, options, feed_list, remote, fs_dirs, fs_files, now,
                   _updated_graphs, _found_error, pc, idx, pending, retcode,
                   run, epoch, ev, log>>

\* update_feeds, line 119: self._update_feed(row); an exception it raises
\* ends the process (exit status 1)
UpdateFeed ==
    /\ AtRow
    /\ Len(feed_list[idx]) # 0
    /\ ~startswith(feed_list[idx][1], <<"#">>)
    /\ ~incorrect_feed_spec(feed_list[idx])
    /\ \E S \in {_update_feed(CallState(fs_dirs, fs_files, _updated_graphs,
                                        _found_error), feed_list[idx])} :
           /\ fs_dirs' = S.dirs
           /\ fs_files' = S.files
           /\ _updated_graphs' = S.upd
           /\ _found_error' = S.err
           /\ ev' = [kind |-> "feed", row |-> idx, ops |-> S.ops,
                     exit |-> S.exit]
           /\ log' = [log EXCEPT !.writes = @ \cup S.written,
                                  !.happened = @ \cup Failures(S.ops, idx),
                                  !.swallowed = @ \/ Swallowed(S.ops, idx)]
           /\ IF S.exit = "raise"
              THEN pc' = "crashed" /\ retcode' = 1 /\ idx' = idx
              ELSE pc' = pc /\ retcode' = retcode /\ idx' = idx + 1
    /\ sigint' = {}
    /\ UNCHANGED <<env, options, feed_list, remote, now, pending, run, epoch>>

\* Mutant: the graphs are updated before the feed list is read to its end
StartUpdateGraphsEarly ==
    /\ pc = "sync"
    /\ pc' = "rebuild"
    /\ pending' = _updated_graphs
    /\ ev' = NoEvent
    /\ UNCHANGED <<env, sigint, options, feed_list, remote, fs_dirs, fs_files, now,
                   _updated_graphs, _found_error, idx, retcode, run, epoch,
                   log>>

\* update_feeds, line 123, and _update_graphs: the loop starts
StartUpdateGraphs ==
    /\ pc = "sync"
    /\ idx > Len(feed_list)
    /\ pc' = "rebuild"
    /\ pending' = _updated_graphs
    /\ ev' = NoEvent
    /\ UNCHANGED <<env, sigint, options, feed_list, remote, fs_dirs, fs_files, now,
                   _updated_graphs, _found_error, idx, retcode, run, epoch,
                   log>>

\* _update_graphs, line 226: self._update_graph(graph) for the next graph
\* of the set.  The call raises, which ends the process (exit status 1),
\* when --otp-command is None (line 233), when the log file cannot be
\* opened (line 236) and when the command cannot be started (line 237: no
\* such file, or '' for a command).  Otherwise the command runs and prints
\* out; it exits with rc, or the user's Ctrl-C ends the call before it has
\* returned (rc = None, on a machine with a user at the terminal).  After
\* the command has exited, _update_graph goes on to its end (ctrl_c FALSE)
\* or a Ctrl-C finds it on its way.  KeyboardInterrupt leaves main, lines
\* 337-339 make 1 the exit status, unless one more Ctrl-C comes there.
UpdateGraph ==
    /\ pc = "rebuild"
    /\ \E graph \in pending, out \in CommandOutputs,
          rc \in {0, 1} \cup {x \in {None} : env.user},
          ctrl_c \in {FALSE} \cup {x \in {TRUE} : env.user} :
          LET logged == call_command(fs_files, graph, out)
          IN  IF options["--otp-command"] = NoString \/ ~log_dir_found
              THEN /\ pc' = "crashed" /\ retcode' = 1
                   /\ ev' = [kind |-> "graph", row |-> 0, ops |-> {},
                             exit |-> "raise"]
                   /\ UNCHANGED <<fs_dirs, fs_files, _found_error, pending,
                                  log>>
              ELSE IF options["--otp-command"] = << >> \/ ~env.command_exists
              THEN /\ pc' = "crashed" /\ retcode' = 1
                   /\ fs_files' = open_log(fs_files, graph)
                   /\ ev' = [kind |-> "graph", row |-> 0,
                             ops |-> {"open_log"}, exit |-> "raise"]
                   /\ UNCHANGED <<fs_dirs, _found_error, pending, log>>
              ELSE IF rc = None
              THEN /\ pc' = "crashed" /\ retcode' \in exit_after_ctrl_c
                   /\ fs_files' = logged
                   /\ ev' = [kind |-> "graph", row |-> 0,
                             ops |-> {"open_log"}, exit |-> "raise"]
                   /\ UNCHANGED <<fs_dirs, _found_error, pending, log>>
              ELSE \E r \in IF ctrl_c
                            THEN _update_graph_interrupted(
                                     fs_dirs, logged, _found_error, graph, rc)
                            ELSE {_update_graph(fs_dirs, logged,
                                                _found_error, graph, rc)} :
                   /\ fs_dirs' = r.fs.dirs
                   /\ fs_files' = r.fs.files
                   /\ _found_error' = r.err
                   /\ pending' = pending \ {graph}
                   /\ ev' = [kind |-> "graph", row |-> 0,
                             ops |-> {"open_log"},
                             exit |-> IF ctrl_c THEN "raise" ELSE "return"]
                   /\ log' = [log EXCEPT
                                !.calls = @ \cup {[graph |-> graph,
                                                   rc |-> rc]},
                                !.ncalls = @ + 1,
                                !.deleted = @ \cup (fs_dirs \ r.fs.dirs)
                                   \cup {d \in fs_dirs :
                                           \E q \in DOMAIN logged
                                                  \ DOMAIN r.fs.files :
                                              startswith(q, d \o <<"/">>)},
                                !.happened = @ \cup
                                   {Event("rebuild_failed", 0, graph) :
                                      x \in {y \in {1} : rc # 0}}]
                   /\ IF ctrl_c
                      THEN pc' = "crashed" /\ retcode' \in exit_after_ctrl_c
                      ELSE UNCHANGED <<pc, retcode>>
    /\ UNCHANGED <<env, sigint, options, feed_list, remote, now,
                   _updated_graphs, idx, run, epoch>>

\* The call states in which a Ctrl-C that is not caught can find
\* _update_feed(row) between the last-modified check (S4) and the end of
\* the call (S5): after the fetch of the feed (S5a), after its comparison
\* with the local one (S5b), inside shutil.copyfile (the local feed cut
\* short), after it with the graph not yet added (S5d), and at the end
interrupted_install(S4, S5, row) ==
    LET feed_path == local_feed_path_of(row)
        S5a == [S4 EXCEPT !.ops = S5.ops \ {"hash_main", "write_payload",
                                            "mark"},
                          !.err = S5.err]
        S5b == [S5a EXCEPT !.ops = S5.ops \ {"write_payload", "mark"}]
        S5d == [S5 EXCEPT !.upd = S4.upd, !.ops = @ \ {"mark"}]
        S5c == IF "write_payload" \in S5.ops
               THEN {[S5d EXCEPT !.files[feed_path].content = c] :
                       c \in cut_short(S5.files[feed_path].content)}
               ELSE {}
    IN  IF S5.exit = "raise" THEN {}
        ELSE {S5a, S5b, S5d, S5} \cup S5c

\* ... after the last-modified check (S4), and from there on
interrupted_last_modified(S4, row) ==
    {S4} \cup interrupted_install(S4, install_of_row(S4, row), row)

\* ... between the force-rebuild option (S2) and the end of the feed-info
\* check (S3): after the fetch of the feed info (S3a), after its
\* comparison with the stored one (S3b), inside shutil.copyfile (the
\* stored feed info cut short) and after it (S3), and from there on
interrupted_feed_info(S2, S3, row) ==
    LET info_path == stored_feed_info_path_of(row)
        S3a == [S2 EXCEPT !.ops = S3.ops \ {"hash_info", "write_info"},
                          !.err = S3.err]
        S3b == [S3a EXCEPT !.ops = S3.ops \ {"write_info"}]
        S3c == IF "write_info" \in S3.ops
               THEN {[S3 EXCEPT !.files[info_path].content = c] :
                       c \in cut_short(S3.files[info_path].content)}
               ELSE {}
    IN  {S3a, S3b, S3} \cup S3c
        \cup interrupted_last_modified(last_modified_of_row(S3, row), row)

\* ... after the graph directory is there (S1), after the force-rebuild
\* option was looked at (S2), and from there on
interrupted_force_rebuild(S1, S2, row) ==
    {S1, S2} \cup interrupted_feed_info(S2, feed_info_of_row(S2, row), row)

\* The call states in which a Ctrl-C that is not caught can find
\* _update_feed(row), lines 153-221
interrupted_feed_from(S1, row) ==
    interrupted_force_rebuild(S1, force_rebuild_step(S1, row[1]), row)

interrupted_feed(S, row) ==
    LET graph == row[1]
        only_process_graph == options["--only-process-graph"]
    IN  IF ~falsy(only_process_graph) /\ only_process_graph # graph
        THEN {}
        ELSE {[T EXCEPT !.exit = "raise"] :
                 T \in {U \in interrupted_feed_from(
                                  _create_graph_dir(S, graph), row) :
                           U.exit # "raise"}}

\* The call state in which a Ctrl-C finds _fetch_file(url) inside its
\* except handler, at line 284, called in state S: the fetch was made and
\* has failed, self._found_error is not set yet and _fetch_file has not
\* returned.  With the state, the fetch that is cut there.
interrupted_except(S, url, op) ==
    IF ~_fetch_file(S.err, url).ok
    THEN {[call |-> [did(S, op) EXCEPT !.exit = "raise"], fetch |-> op]}
    ELSE {}

\* ... for the fetch of the feed, line 204, after the last-modified check
interrupted_fetch_main(S4, row) ==
    IF S4.exit = "run" /\ urlparse(row[3]).scheme # "file"
    THEN interrupted_except(S4, row[3], "fetch_main")
    ELSE {}

\* ... for the fetch of the feed info, line 171, and for that of the feed
interrupted_fetch_from(S2, row) ==
    (IF Len(row) = 4 THEN interrupted_except(S2, row[4], "fetch_info")
     ELSE {})
    \cup interrupted_fetch_main(
             last_modified_of_row(feed_info_of_row(S2, row), row), row)

\* The call states in which a Ctrl-C finds _update_feed(row) inside the
\* except handler of _fetch_file
interrupted_fetch(S, row) ==
    LET graph == row[1]
        only_process_graph == options["--only-process-graph"]
    IN  IF ~falsy(only_process_graph) /\ only_process_graph # graph
        THEN {}
        ELSE interrupted_fetch_from(
                 force_rebuild_step(_create_graph_dir(S, graph), graph),
                 row)

\* The Ctrl-C of a user at the terminal that nothing catches:
\* KeyboardInterrupt leaves main where it is, between two steps of
\* update_feeds or on the way through _update_feed; lines 337-339 print
\* 'Cancelled by user.' and make 1 the exit status.  One more Ctrl-C in
\* these lines, or the Ctrl-C that comes at line 340 when main has
\* returned, is handled by nothing and ends the process by SIGINT.  (A
\* Ctrl-C inside the try block of _fetch_file is CtrlCInFetch; one during
\* the HEAD request is a request that raises; one while _update_graph is
\* at work is in UpdateGraph.)
Cancel ==
    /\ env.user
    /\ pc \in {"sync", "rebuild"}
    /\ LET S0 == CallState(fs_dirs, fs_files, _updated_graphs, _found_error)
           in_feed == /\ AtRow /\ Len(feed_list[idx]) # 0
                      /\ ~startswith(feed_list[idx][1], <<"#">>)
                      /\ ~incorrect_feed_spec(feed_list[idx])
           cuts == {[call |-> S, fetch |-> "none"] :
                      S \in {[S0 EXCEPT !.exit = "raise"]} \cup
                            (IF in_feed
                             THEN interrupted_feed(S0, feed_list[idx])
                             ELSE {})}
                   \cup (IF in_feed
                         THEN interrupted_fetch(S0, feed_list[idx])
                         ELSE {})
       IN  \E c \in cuts :
              LET S == c.call
              IN  /\ fs_dirs' = S.dirs
                  /\ fs_files' = S.files
                  /\ _updated_graphs' = S.upd
                  /\ _found_error' = S.err
                  /\ ev' = [kind |-> "interrupt", row |-> idx,
                            ops |-> S.ops, exit |-> S.exit]
                  /\ log' = [log EXCEPT
                               !.writes = @ \cup S.written,
                               !.happened = @ \cup
                                  (IF S.ops = {} THEN {}
                                   ELSE Failures(S.ops \ {c.fetch}, idx)),
                               !.swallowed = @ \/ (S.ops # {}
                                                    /\ Swallowed(S.ops, idx))]
    /\ pc' = "crashed"
    /\ retcode' \in exit_after_ctrl_c
    /\ sigint' = {}
    /\ UNCHANGED <<env, options, feed_list, remote, now, idx, pending, run,
                   epoch>>

\* main, line 329
Return ==
    /\ pc = "rebuild"
    /\ pending = {}
    /\ pc' = "done"
    /\ retcode' = main_return
    /\ ev' = NoEvent
    /\ UNCHANGED <<env, sigint, options, feed_list, remote, fs_dirs, fs_files, now,
                   _updated_graphs, _found_error, idx, pending, run, epoch,
                   log>>

Next ==
    \/ RemoteChange
    \/ StartRun
    \/ SkipEmptyLine
    \/ SkipComment
    \/ IncorrectFeedSpec
    \/ UpdateFeed
    \/ StartUpdateGraphs
    \/ UpdateGraph
    \/ Return
    \/ CtrlCInFetch
    \/ Cancel

Spec == Init /\ [][Next]_vars

\* The same program, with the log of a run remembering what went wrong in
\* the run before it (for properties that relate two runs)
NextAfter ==
    \/ RemoteChange
    \/ StartRunAfter
    \/ SkipEmptyLine
    \/ SkipComment
    \/ IncorrectFeedSpec
    \/ UpdateFeed
    \/ StartUpdateGraphs
    \/ UpdateGraph
    \/ Return
    \/ CtrlCInFetch
    \/ Cancel

TwoRunSpec == Init /\ [][NextAfter]_vars

\* The program goes on while it runs: once update_feeds is in _update_graphs
\* the command of the next graph is run when the one before it has exited,
\* and main returns when the loop has ended
FairSpec == Spec /\ WF_vars(UpdateGraph) /\ WF_vars(Return)

----------------------------------------------------------------------------
\* Vocabulary of the properties

\* A row that update_feeds hands to _update_feed
IsFeedRow(row) ==
    /\ Len(row) \in {3, 4}
    /\ ~startswith(row[1], <<"#">>)

\* A row that is neither blank nor a comment and has a wrong field count
IsMalformed(row) ==
    /\ Len(row) # 0
    /\ ~startswith(row[1], <<"#">>)
    /\ Len(row) \notin {3, 4}

\* The row passes the --only-process-graph filter
InFilter(row) ==
    \/ falsy(options["--only-process-graph"])
    \/ options["--only-process-graph"] = row[1]

\* The next step processes a feed row that passes the filter
AtFeedRow ==
    /\ AtRow
    /\ IsFeedRow(feed_list[idx])
    /\ InFilter(feed_list[idx])

\* The step is update_feeds going through the next row of the feed list:
\* not a Ctrl-C of the user ending the program there, and not the user
\* pressing Ctrl-C while a fetch of the row is under way (the row is then
\* still to be gone through, with that fetch failing)
RowStep == AtRow /\ ev'.kind # "interrupt" /\ sigint' = {}

\* The step is update_feeds handing the next row, a feed row that passes
\* the filter, to _update_feed
FeedRowStep == AtFeedRow /\ ev'.kind # "interrupt" /\ sigint' = {}

\* The rows of the feed list that the run has worked on are the first
\* RowsBegun: the rows update_feeds is past, and the row that an exception
\* or a Ctrl-C ended the run in
RowsBegun ==
    IF pc = "crashed" /\ idx <= Len(feed_list) THEN idx ELSE idx - 1

\* The directory of a graph
GraphPath(graph) == path_join(_get_otp_base_dir, <<"graphs">>, graph)

\* The local feed of the row is the same file before and after the step
PayloadUntouched(row) ==
    LET p == local_feed_path_of(row)
    IN  /\ (p \in DOMAIN fs_files) = (p \in DOMAIN fs_files')
        /\ p \in DOMAIN fs_files => fs_files'[p] = fs_files[p]

\* The step is inside a run that started with the remote resources as the
\* run before it found them, and they have not changed since
SecondRunNoRemoteChange ==
    /\ pc \in {"sync", "rebuild", "done", "crashed"}
    /\ log.prev.pc # "idle"
    /\ log.prev.start_epoch = epoch

\* Two rows that _update_feed processes keep their files under one path
SharedCachePath ==
    \E i, j \in DOMAIN feed_list :
        /\ i # j
        /\ IsFeedRow(feed_list[i]) /\ InFilter(feed_list[i])
        /\ IsFeedRow(feed_list[j]) /\ InFilter(feed_list[j])
        /\ feed_list[i][1] = feed_list[j][1]
        /\ feed_list[i][2] = feed_list[j][2]

----------------------------------------------------------------------------
\* C1 (as claimed): when update_feeds runs twice in succession and no
\* remote resource changes from the start of the first run on, the second
\* run ends with an empty _updated_graphs and has written no cache file.
C1_IdempotentAsClaimed ==
    (SecondRunNoRemoteChange /\ log.prev.pc = "done"
        /\ pc \in {"rebuild", "done"})
        => (_updated_graphs = {} /\ log.writes = {})

\* C1 (amended): when no two processed rows share a cache path, the first
\* run deleted nothing in its rebuild phase, no remote resource (content,
\* outcome of a fetch, outcome of a probe) changes from the start of the
\* first run on and no fetch of either run is failed by a Ctrl-C, then as
\* long as the second run has worked on no other rows than those the first
\* run had finished (the whole run, when the first run read the whole
\* list) no cache file is written, and _updated_graphs stays empty unless
\* --force-rebuild is set.  (A Ctrl-C that fails a fetch of the first run
\* leaves a feed to install; one that fails the feed-info fetch of the
\* second run sends the row on to a feed that a run before the first left
\* uninstalled)
C1_Idempotent ==
    ( /\ SecondRunNoRemoteChange
      /\ ~SharedCachePath
      /\ log.prev.deleted = {}
      /\ ~log.prev.swallowed /\ ~log.swallowed
      /\ RowsBegun < log.prev.idx )
        => ( /\ log.writes = {}
             /\ ~_is_force_rebuild_set => _updated_graphs = {} )

\* C1 witness: a second run without remote change has finished, after a
\* first run that installed a feed and rebuilt its graph
C1_Witness ==
    /\ SecondRunNoRemoteChange
    /\ ~_is_force_rebuild_set /\ ~SharedCachePath
    /\ log.prev.deleted = {} /\ log.prev.pc = "done"
    /\ pc = "done"
    /\ fs_files # EmptyFiles
    /\ \E i \in DOMAIN feed_list :
          IsFeedRow(feed_list[i]) /\ Len(feed_list[i]) = 4

----------------------------------------------------------------------------
\* The fetch of the row's feed URL succeeds with content equal in digest
\* to the local feed
SameDigestAsLocal(row) ==
    LET p == local_feed_path_of(row)
        r == _fetch_file(_found_error, row[3])
    IN  /\ p \in DOMAIN fs_files
        /\ r.ok
        /\ _sha256hash(r.file) = _sha256hash(open_file(
               [dirs |-> fs_dirs, files |-> fs_files], p))

\* C2 (as claimed): a row whose local feed exists and whose fetched content
\* has the digest of the local feed never adds its graph to
\* _updated_graphs and never overwrites the local feed.
C2_HashAuthoritativeAsClaimed ==
    [][ (FeedRowStep /\ "fetch_main" \in ev'.ops
            /\ SameDigestAsLocal(feed_list[idx]))
          => ( /\ _updated_graphs' = _updated_graphs
               /\ PayloadUntouched(feed_list[idx]) ) ]_vars

\* C2 (amended): a row whose local feed exists and whose fetched content
\* has the digest of the local feed never overwrites the local feed and
\* adds its graph to _updated_graphs only through the --force-rebuild
\* option, even when the remote last-modified time is newer than the local
\* file's.
C2_HashAuthoritative ==
    [][ (FeedRowStep /\ "fetch_main" \in ev'.ops
            /\ SameDigestAsLocal(feed_list[idx]))
          => ( /\ "mark" \notin ev'.ops
               /\ "write_payload" \notin ev'.ops
               /\ PayloadUntouched(feed_list[idx])
               /\ ~_is_force_rebuild_set
                    => _updated_graphs' = _updated_graphs ) ]_vars

\* C2 witness: a row was fetched and compared although its local feed
\* exists, because the remote last-modified time is newer, and the feed was
\* found identical and left alone
C2_Witness ==
    /\ ev.kind = "feed"
    /\ {"probe", "fetch_main", "hash_main"} \subseteq ev.ops
    /\ "write_payload" \notin ev.ops
    /\ LET row == feed_list[ev.row]
           p == local_feed_path_of(row)
       IN  /\ p \in DOMAIN fs_files
           /\ remote[row[3]].head.status = HTTP_OK
           /\ remote[row[3]].head.last_modified > fs_files[p].mtime
           /\ remote[row[3]].get.body = fs_files[p].content
           /\ row[1] \notin _updated_graphs

\* C3 (as claimed): a row that passes the filter and has no local feed
\* gets the fetched content installed as its local feed and its graph added
\* to _updated_graphs, whatever the remote time and whatever the stored
\* feed info.  Stated for rows whose probe does not raise and whose feed
\* fetch succeeds.
C3_FirstTimeIngestion ==
    [][ ( /\ FeedRowStep
          /\ local_feed_path_of(feed_list[idx]) \notin DOMAIN fs_files
          /\ remote[feed_list[idx][3]].get.code # 0
          /\ feed_list[idx][3] \notin sigint
          /\ feed_list[idx][3][1] \in {"http", "https"}
                => remote[feed_list[idx][3]].head.status # 0 )
          => ( /\ local_feed_path_of(feed_list[idx]) \in DOMAIN fs_files'
               /\ fs_files'[local_feed_path_of(feed_list[idx])].content
                    = remote[feed_list[idx][3]].get.body
               /\ feed_list[idx][1] \in _updated_graphs' ) ]_vars

\* C4: a graph is in _updated_graphs only if --force-rebuild is set or a
\* local feed of the graph was written in this run, and the rebuild
\* command is only invoked for graphs in _updated_graphs.
C4_RebuildOnlyOnChange ==
    /\ \A g \in _updated_graphs :
          \/ _is_force_rebuild_set
          \/ \E i \in DOMAIN feed_list :
                /\ IsFeedRow(feed_list[i])
                /\ feed_list[i][1] = g
                /\ local_feed_path_of(feed_list[i]) \in log.writes
    /\ \A c \in log.calls : c.graph \in _updated_graphs

\* C4 witness: without --force-rebuild, the command was invoked for a
\* graph while another row's graph was left out
C4_Witness ==
    /\ ~_is_force_rebuild_set
    /\ pc = "done"
    /\ log.calls # {}
    /\ \E i \in DOMAIN feed_list :
          /\ IsFeedRow(feed_list[i]) /\ InFilter(feed_list[i])
          /\ feed_list[i][1] \notin _updated_graphs

\* C5: with --force-rebuild set, when the sync phase has ended every graph
\* named by a feed row that passes the filter is in _updated_graphs.
C5_ForceRebuild ==
    (_is_force_rebuild_set /\ pc \in {"rebuild", "done"})
        => \A i \in DOMAIN feed_list :
              (IsFeedRow(feed_list[i]) /\ InFilter(feed_list[i]))
                  => feed_list[i][1] \in _updated_graphs

\* C5 witness: with --force-rebuild set the sync phase ended with a graph
\* marked although the run wrote no file and a fetch failed
C5_Witness ==
    /\ _is_force_rebuild_set
    /\ pc = "rebuild"
    /\ log.writes = {}
    /\ _found_error = "True"
    /\ _updated_graphs # {}

\* The feed info of the 4-field row is fetched and has the digest of the
\* stored one
FeedInfoIdentical(row) ==
    LET p == stored_feed_info_path_of(row)
        r == _fetch_file(_found_error, row[4])
    IN  /\ Len(row) = 4
        /\ p \in DOMAIN fs_files
        /\ r.ok
        /\ _sha256hash(r.file) = _sha256hash(open_file(
               [dirs |-> fs_dirs, files |-> fs_files], p))

\* C6: when the fetched feed info of a 4-field row has the digest of the
\* stored one, the processing of the row ends there: no probe, no fetch of
\* the feed, no comparison of the feed, no file written, and without
\* --force-rebuild no graph added.
C6_FeedInfoShortCircuit ==
    [][ (FeedRowStep /\ FeedInfoIdentical(feed_list[idx]))
          => ( /\ ev'.ops \subseteq
                    {"makedirs", "force_mark", "fetch_info", "hash_info"}
               /\ ev'.exit = "return"
               /\ fs_files' = fs_files
               /\ log'.writes = log.writes
               /\ ~_is_force_rebuild_set
                    => _updated_graphs' = _updated_graphs ) ]_vars

\* C6 witness: a row stopped at its feed info while the remote feed
\* differs from the local one
C6_Witness ==
    /\ ev.kind = "feed"
    /\ "hash_info" \in ev.ops
    /\ "write_info" \notin ev.ops
    /\ LET row == feed_list[ev.row]
           p == local_feed_path_of(row)
       IN  /\ p \in DOMAIN fs_files
           /\ remote[row[3]].get.code = HTTP_OK
           /\ remote[row[3]].get.body # fs_files[p].content
           /\ row[1] \notin _updated_graphs

\* C7 (as claimed): a failure while a row is processed (a fetch error, a
\* probe error, a transport failure of the HEAD request) never stops the
\* run: the loop goes on to the next row.
C7_FailureIsolation ==
    [][ (FeedRowStep /\ feed_list[idx][3][1] \in {"http", "https"})
          => (pc' = "sync" /\ idx' = idx + 1) ]_vars

\* The fetch of the row's feed fails: _fetch_file returns None or, for a
\* file: URL, the file cannot be opened (line 201)
MainFetchFails(row) ==
    IF row[3][1] = "file" THEN remote[row[3]].get.code = 0
    ELSE ~_fetch_file(_found_error, row[3]).ok

\* C8 (as claimed): when the fetch of a row's feed fails (through
\* _fetch_file, or the open of a file: URL at line 201), the local feed is
\* neither deleted nor modified, _found_error is set and the row adds its
\* graph only through the --force-rebuild option; and no step of the sync
\* phase removes a directory or a file.
C8_FetchFailureLeavesFeed ==
    [][ /\ ( /\ FeedRowStep
             /\ ("fetch_main" \in ev'.ops \/ "open_main" \in ev'.ops)
             /\ MainFetchFails(feed_list[idx]) )
            => ( /\ PayloadUntouched(feed_list[idx])
                 /\ _found_error' = "True"
                 /\ "mark" \notin ev'.ops
                 /\ ~_is_force_rebuild_set
                      => _updated_graphs' = _updated_graphs )
        /\ pc = "sync"
            => ( /\ fs_dirs \subseteq fs_dirs'
                 /\ DOMAIN fs_files \subseteq DOMAIN fs_files' ) ]_vars

\* C9: a record that is neither blank nor a comment and has neither 3 nor
\* 4 fields is skipped (nothing created, fetched or marked), sets
\* _found_error, and the loop goes on to the next record; a blank line or
\* a comment is skipped and leaves _found_error as it is.
C9_MalformedRecords ==
    [][ /\ (RowStep /\ IsMalformed(feed_list[idx]))
            => ( /\ ev'.ops = {}
                 /\ fs_dirs' = fs_dirs /\ fs_files' = fs_files
                 /\ _updated_graphs' = _updated_graphs
                 /\ _found_error' = "True"
                 /\ pc' = "sync" /\ idx' = idx + 1 )
        /\ (RowStep /\ ~IsMalformed(feed_list[idx])
                  /\ ~IsFeedRow(feed_list[idx]))
            => ( /\ ev'.ops = {}
                 /\ fs_dirs' = fs_dirs /\ fs_files' = fs_files
                 /\ _updated_graphs' = _updated_graphs
                 /\ _found_error' = _found_error
                 /\ pc' = "sync" /\ idx' = idx + 1 ) ]_vars

\* C9 witness: after a malformed record set _found_error, a later valid
\* record was processed and installed its feed
C9_Witness ==
    /\ ev.kind = "feed"
    /\ "write_payload" \in ev.ops
    /\ _found_error = "True"
    /\ \E i \in 1..(ev.row - 1) : IsMalformed(feed_list[i])
    /\ \E i \in 1..(ev.row - 1) : feed_list[i] = << >>
                                     \/ startswith(feed_list[i][1], <<"#">>)

\* C10 (as claimed): after the rebuild phase, every graph whose command
\* exited non-zero while --keep-failed-graphs is not set has no cache
\* directory any more, and _found_error is set, whatever the base
\* directory.
C10_FailedBuildCleanup ==
    pc = "done"
        => \A c \in log.calls :
              (c.rc # 0 /\ ~_is_keep_failed_graphs_set)
                  => ( /\ GraphPath(c.graph) \notin fs_dirs
                       /\ \A p \in DOMAIN fs_files :
                             ~startswith(p, GraphPath(c.graph) \o <<"/">>)
                       /\ _found_error = "True" )

----------------------------------------------------------------------------
\* The graph names of the feed lists
Graphs == {gA, gB}

\* The directory of the graph and every file in it are the same before and
\* after the step
GraphDirUnchanged(graph) ==
    /\ (GraphPath(graph) \in fs_dirs) = (GraphPath(graph) \in fs_dirs')
    /\ \A p \in DOMAIN fs_files \cup DOMAIN fs_files' :
          startswith(p, GraphPath(graph) \o <<"/">>)
              => ( /\ p \in DOMAIN fs_files
                   /\ p \in DOMAIN fs_files'
                   /\ fs_files'[p] = fs_files[p] )

\* The step runs the rebuild command for one graph
IsRebuildStep == pc = "rebuild" /\ log'.ncalls = log.ncalls + 1

\* The graph the step runs the command for, and the command's exit status
RebuiltGraph == CHOOSE g \in pending : g \notin pending'
RebuildStatus == (CHOOSE c \in log'.calls : c.graph = RebuiltGraph).rc

\* C11: a rebuild step whose command exits with 0, or exits non-zero while
\* --keep-failed-graphs is set, leaves the directory of its graph and all
\* its files unchanged; an exit with 0 leaves _found_error as it is; no
\* step of the rebuild phase touches the directory of a graph that is not
\* in _updated_graphs.
C11_GraphDirPreserved ==
    [][ /\ IsRebuildStep
            => ( /\ (RebuildStatus = 0 \/ _is_keep_failed_graphs_set)
                      => GraphDirUnchanged(RebuiltGraph)
                 /\ RebuildStatus = 0 => _found_error' = _found_error )
        /\ pc = "rebuild"
            => \A g \in Graphs \ _updated_graphs : GraphDirUnchanged(g) ]_vars

\* C11 witness: the command failed for a graph while --keep-failed-graphs
\* is set, and the directory of the graph is there with a feed in it
C11_Witness ==
    /\ ev.kind = "graph"
    /\ _is_keep_failed_graphs_set
    /\ _found_error = "True"
    /\ \E c \in log.calls :
          /\ c.rc # 0
          /\ GraphPath(c.graph) \in fs_dirs
          /\ \E p \in DOMAIN fs_files :
                startswith(p, GraphPath(c.graph) \o <<"/">>)
    /\ \E g \in Graphs \ _updated_graphs : GraphPath(g) \in fs_dirs

\* The graphs the rebuild command has been run for in this run
CalledGraphs == {c.graph : c \in log.calls}

\* C12: in every run the rebuild command is not run before update_feeds
\* has gone through every row of the feed list, and it is then run exactly
\* once for each graph of _updated_graphs, however many rows added it (in
\* a run that an exception or a Ctrl-C ends: at most once, and for graphs
\* of _updated_graphs only).
C12_SyncBeforeRebuild ==
    /\ log.ncalls > 0
          => ( /\ pc \in {"rebuild", "done", "crashed"}
               /\ idx > Len(feed_list) )
    /\ pc = "sync" => log.ncalls = 0
    /\ pc = "rebuild"
          => ( /\ CalledGraphs = _updated_graphs \ pending
               /\ log.ncalls = Cardinality(_updated_graphs \ pending) )
    /\ pc = "crashed"
          => ( /\ CalledGraphs \subseteq _updated_graphs
               /\ log.ncalls = Cardinality(CalledGraphs) )
    /\ pc = "done"
          => ( /\ CalledGraphs = _updated_graphs
               /\ log.ncalls = Cardinality(_updated_graphs) )

\* C12 witness: a run has returned after two rows of the feed list added
\* the same graph, and the command was run once
C12_Witness ==
    /\ pc = "done"
    /\ _is_force_rebuild_set
    /\ log.ncalls = 1
    /\ \E i, j \in 1..Len(feed_list) :
          /\ i < j
          /\ IsFeedRow(feed_list[i]) /\ InFilter(feed_list[i])
          /\ IsFeedRow(feed_list[j]) /\ InFilter(feed_list[j])
          /\ feed_list[i][1] = feed_list[j][1]
          /\ feed_list[i][1] \in _updated_graphs

\* What the run has gone through that the specification counts as an error
\* for the exit status: a malformed record, a failed fetch, a failed rebuild
ExitStatusErrors ==
    {e \in log.happened : e.kind \in {"malformed", "feed_info_fetch_failed",
                                      "feed_fetch_failed", "rebuild_failed"}}

\* C13: when a run has returned, main's result is 0 exactly when the run
\* had no malformed record, no failed fetch and no failed rebuild, and
\* non-zero exactly when it had one; after a run without any of them
\* _found_error has the value False.
C13_ExitStatus ==
    pc = "done"
        => ( /\ (retcode = 0) = (ExitStatusErrors = {})
             /\ ExitStatusErrors = {} => _found_error = "False" )

\* C14: when a run has returned, _found_error is True if the run had a
\* malformed record, a failed fetch, a failed last-modified probe (status
\* other than 200) or a rebuild command with a non-zero exit status.
C14_ErrorFlagAggregation ==
    pc = "done" => (log.happened # {} => _found_error = "True")

\* C15: with --only-process-graph set, a feed row of another graph changes
\* nothing (no directory, no probe, no fetch, no file written, graph not
\* added to _updated_graphs, also with --force-rebuild) and the loop goes
\* on; a row of the graph of the option is processed exactly as it is
\* without the option.
C15_SingleGraphFilter ==
    [][ (RowStep /\ IsFeedRow(feed_list[idx]))
          => IF InFilter(feed_list[idx])
             THEN LET S == process_feed(CallState(fs_dirs, fs_files,
                                                  _updated_graphs,
                                                  _found_error),
                                        feed_list[idx])
                  IN  /\ fs_dirs' = S.dirs
                      /\ fs_files' = S.files
                      /\ _updated_graphs' = S.upd
                      /\ _found_error' = S.err
                      /\ ev'.ops = S.ops
                      /\ ev'.exit = S.exit
             ELSE /\ ev'.ops = {}
                  /\ UNCHANGED <<fs_dirs, fs_files, _updated_graphs,
                                 _found_error, log, pc>>
                  /\ idx' = idx + 1 ]_vars

\* C15 witness: with the options --only-process-graph and --force-rebuild
\* set, a row of another graph has been skipped after a row of the graph
\* of the option was installed
C15_Witness ==
    /\ ~falsy(options["--only-process-graph"])
    /\ _is_force_rebuild_set
    /\ ev.kind = "feed"
    /\ ev.ops = {}
    /\ feed_list[ev.row][1] # options["--only-process-graph"]
    /\ feed_list[ev.row][1] \notin _updated_graphs
    /\ GraphPath(feed_list[ev.row][1]) \notin fs_dirs
    /\ options["--only-process-graph"] \in _updated_graphs
    /\ log.writes # {}

\* The feed URL of the row is an http or https URL
IsHttpRow(row) == urlparse(row[3]).scheme \in {"http", "https"}

\* The step has not fetched the feed of the row, written no local feed and
\* added no graph because of the row
SkippedWithoutFetch ==
    /\ ev'.exit = "return"
    /\ "fetch_main" \notin ev'.ops
    /\ "write_payload" \notin ev'.ops
    /\ "mark" \notin ev'.ops

\* The local feed of the row exists, the probe gives a timestamp, and the
\* local feed is not older than that timestamp
LocalNotOlder(row) ==
    /\ local_feed_path_of(row) \in DOMAIN fs_files
    /\ _get_last_modified_for_url(row[3]).exit = "return"
    /\ _get_last_modified_for_url(row[3]).value # None
    /\ fs_files[local_feed_path_of(row)].mtime
          >= _get_last_modified_for_url(row[3]).value

\* The processing of the row gets as far as the last-modified check: the
\* feed info check, if the row has one, does not end it
ReachesTimestampCheck(row) == ~FeedInfoIdentical(row)

\* C16: a row with an http(s) feed URL whose processing gets as far as
\* the last-modified check is probed, and is skipped without a fetch
\* exactly when the local feed exists, the probe returned a timestamp and
\* the modification time of the local feed is greater than or equal to
\* that timestamp; when the probe returns no timestamp or there is no
\* local feed, the feed is fetched.  A row that its feed info check ends
\* is not probed.  A row with an ftp or file URL is never probed.
C16_TimestampFilter ==
    [][ FeedRowStep
          => LET row == feed_list[idx]
                 probe == _get_last_modified_for_url(row[3])
             IN  /\ (IsHttpRow(row) /\ ReachesTimestampCheck(row))
                       => ( /\ "probe" \in ev'.ops
                            /\ SkippedWithoutFetch <=> LocalNotOlder(row)
                            /\ ( /\ probe.exit = "return"
                                 /\ \/ probe.value = None
                                    \/ local_feed_path_of(row)
                                          \notin DOMAIN fs_files )
                                 => "fetch_main" \in ev'.ops )
                 /\ (IsHttpRow(row) /\ ~ReachesTimestampCheck(row))
                       => "probe" \notin ev'.ops
                 /\ ~IsHttpRow(row)
                       => ( /\ "probe" \notin ev'.ops
                            /\ ReachesTimestampCheck(row)
                                 => ( \/ "fetch_main" \in ev'.ops
                                      \/ "open_main" \in ev'.ops ) ) ]_vars

\* C17: once the rebuild phase has started, and nobody is there to
\* interrupt the program, it ends with the command run once for every
\* graph of _updated_graphs, whatever the exit status of the command for
\* any of them, with or without the deletion of a directory.
C17_RebuildIsolation ==
    (pc = "rebuild" /\ ~env.user)
        ~> ( /\ pc = "done"
             /\ CalledGraphs = _updated_graphs
             /\ log.ncalls = Cardinality(_updated_graphs) )

\* The stored feed info of the row is the same file before and after the
\* step
SnapshotUntouched(row) ==
    LET p == stored_feed_info_path_of(row)
    IN  /\ (p \in DOMAIN fs_files) = (p \in DOMAIN fs_files')
        /\ p \in DOMAIN fs_files => fs_files'[p] = fs_files[p]

\* The step went on after the feed info check: to the probe of an http(s)
\* feed URL, to the fetch of another one
WentOnToFeed(row) ==
    IF IsHttpRow(row) THEN "probe" \in ev'.ops
    ELSE "fetch_main" \in ev'.ops \/ "open_main" \in ev'.ops

\* C18: for a 4-field row whose feed info is fetched, the stored feed info
\* is written, with the fetched content, exactly when there is none stored
\* or the stored one has another digest, and the processing then goes on
\* to the last-modified check and the feed; when the fetch of the feed
\* info fails, the stored feed info is left as it is, _found_error is set
\* and the processing goes on to the feed as well.
C18_FeedInfoSnapshot ==
    [][ (FeedRowStep /\ Len(feed_list[idx]) = 4)
          => LET row == feed_list[idx]
                 p == stored_feed_info_path_of(row)
                 r == _fetch_file(_found_error, row[4])
             IN  /\ "fetch_info" \in ev'.ops
                 /\ r.ok
                       => ( /\ "write_info" \in ev'.ops
                                 <=> ~FeedInfoIdentical(row)
                            /\ ~FeedInfoIdentical(row)
                                 => ( /\ p \in DOMAIN fs_files'
                                      /\ fs_files'[p].content = r.file.content
                                      /\ p \in log'.writes
                                      /\ WentOnToFeed(row) )
                            /\ FeedInfoIdentical(row)
                                 => SnapshotUntouched(row) )
                 /\ ~r.ok
                       => ( /\ SnapshotUntouched(row)
                            /\ "write_info" \notin ev'.ops
                            /\ _found_error' = "True"
                            /\ WentOnToFeed(row) ) ]_vars

\* C18 witness: a stored feed info was replaced by a fetched one with
\* another digest, and the row went on to its feed
C18_Witness ==
    /\ ev.kind = "feed"
    /\ Len(feed_list[ev.row]) = 4
    /\ {"fetch_info", "hash_info", "write_info"} \subseteq ev.ops
    /\ "probe" \in ev.ops
    /\ fs_files[stored_feed_info_path_of(feed_list[ev.row])].content
          = remote[feed_list[ev.row][4]].get.body

\* The run before this one went through row i and the fetch of its feed
\* failed; since that run started, one remote resource has changed (the
\* feed of the row, which can be fetched now), and every fetch and probe
\* of the row succeeds
FetchFailedLastRun(i) ==
    LET row == feed_list[i]
    IN  /\ Event("feed_fetch_failed", i, row[1]) \in log.prev.happened
        /\ log.start_epoch = epoch
        /\ log.prev.start_epoch + 1 = epoch
        /\ _fetch_file(_found_error, row[3]).ok
        /\ Len(row) = 4 => _fetch_file(_found_error, row[4]).ok
        /\ IsHttpRow(row) => remote[row[3]].head.status = HTTP_OK

\* There is no local feed for the row, or one that differs from the
\* remote feed and is older than the remote timestamp
LocalMissingOrOlder(row) ==
    \/ local_feed_path_of(row) \notin DOMAIN fs_files
    \/ /\ fs_files[local_feed_path_of(row)].content
             # remote[row[3]].get.body
       /\ IsHttpRow(row) => ~LocalNotOlder(row)

\* The step has fetched the feed of the row, installed it as the local
\* feed and added the graph of the row
FetchedAndInstalled(row) ==
    /\ "fetch_main" \in ev'.ops
    /\ local_feed_path_of(row) \in DOMAIN fs_files'
    /\ fs_files'[local_feed_path_of(row)].content = remote[row[3]].get.body
    /\ row[1] \in _updated_graphs'

\* C19: when the fetch of the feed of a row failed in the run before, and
\* the local feed is missing or older than the remote one, the row is
\* fetched, installed and its graph added in this run, in which every
\* fetch and probe succeeds.
C19_RetryAfterFailedFetch ==
    [][ ( /\ FeedRowStep
          /\ FetchFailedLastRun(idx)
          /\ LocalMissingOrOlder(feed_list[idx]) )
          => FetchedAndInstalled(feed_list[idx]) ]_vars

\* The rebuild command failed for the graph in the run before this one,
\* which started with the remote resources as they are now
RebuildFailedLastRun(graph) ==
    /\ Event("rebuild_failed", 0, graph) \in log.prev.happened
    /\ log.prev.pc = "done"
    /\ log.start_epoch = epoch
    /\ log.prev.start_epoch = epoch

\* Every fetch and probe of the row succeeds
RowSucceeds(row) ==
    /\ remote[row[3]].get.code # 0
    /\ urlparse(row[3]).scheme # "file" => _fetch_file(_found_error, row[3]).ok
    /\ Len(row) = 4 => _fetch_file(_found_error, row[4]).ok
    /\ IsHttpRow(row) => remote[row[3]].head.status = HTTP_OK

\* C20: when the rebuild command failed for a graph in the run before,
\* with --keep-failed-graphs unset, every row of the graph in this run
\* (remote resources unchanged, every fetch succeeding) finds neither a
\* local feed nor a stored feed info, installs its feed, and the graph is
\* in _updated_graphs again.
C20_FailedGraphRebuiltAgain ==
    [][ ( /\ FeedRowStep
          /\ ~_is_keep_failed_graphs_set
          /\ ~SharedCachePath
          /\ RebuildFailedLastRun(feed_list[idx][1])
          /\ RowSucceeds(feed_list[idx]) )
          => ( /\ local_feed_path_of(feed_list[idx]) \notin DOMAIN fs_files
               /\ stored_feed_info_path_of(feed_list[idx])
                     \notin DOMAIN fs_files
               /\ "write_payload" \in ev'.ops
               /\ feed_list[idx][1] \in _updated_graphs' ) ]_vars

====
